---- MODULE Spec2Model ----
(***************************************************************************)
(* Frame-resource lifecycle and render-loop protocol of the Codotaku Game  *)
(* Engine demo (src/src/main.cpp, AppState.cpp, Model.cpp).                *)
(*                                                                         *)
(* The program is single-threaded and driven by the SDL3 main callbacks:   *)
(* SDL_AppInit runs once, then SDL dispatches queued events to             *)
(* SDL_AppEvent and calls SDL_AppIterate once per frame, and SDL_AppQuit   *)
(* runs after a callback has returned SDL_APP_SUCCESS.  An exception that  *)
(* leaves a callback is caught nowhere: the process is terminated.         *)
(*                                                                         *)
(* GPU objects are entries of the table objs; a handle is the index of its *)
(* entry and NULL is the null pointer.  Every SDL call that can fail takes *)
(* its outcome from the environment.                                       *)
(***************************************************************************)
EXTENDS Integers, Sequences, FiniteSets, TLC

VARIABLES
    pc,          \* position of the program: a step of SDL_AppInit, "loop", ...
    context,     \* the AppState object (AppState.h)
    local,       \* the local variables of SDL_AppInit
    objs,        \* table of the objects SDL has created; handle = index
    windowSize,  \* size of the window as SDL_GetWindowSize reports it
    platform,    \* what the machine fixes: device properties, asset files
    events,      \* SDL's event queue
    resizes,     \* number of resizes of the window so far
    transferCommandBuffer,  \* the command buffer SDL_AppInit records the uploads on
    frame,       \* the command buffer of the latest SDL_AppIterate call
    calls,       \* object-level SDL calls made so far, in order
    error        \* what() of the exception that terminated the process

vars == <<pc, context, local, objs, windowSize, platform, events, resizes,
          transferCommandBuffer, frame, calls, error>>

----------------------------------------------------------------------------
(* Bounds of the model *)

\* window sizes: InitialWidth x InitialHeight and every w x h with w + h = MaxDim + 1
MaxDim == 1
\* resizes of the window in one execution
MaxResizes == 2
\* events waiting in SDL's queue
MaxQueue == 1

\* channel counts LoadImage is called with on its own: 0..MaxChannels
MaxChannels == 5

----------------------------------------------------------------------------
(* Program constants *)

NULL == 0
InitialWidth == 800
InitialHeight == 600
SDL_GPU_SAMPLECOUNT_4 == 4
SizeofVertex == 20
SizeofUint32 == 4
\* the swapchain image acquired for a frame: owned by the swapchain, not by objs
SwapchainImage == -1

ShaderFormats == {"SPIRV", "MSL", "DXIL"}
SwapchainFormats == {"B8G8R8A8_UNORM"}

WindowSizes ==
    {[w |-> InitialWidth, h |-> InitialHeight]}
        \cup {[w |-> a, h |-> MaxDim + 1 - a] : a \in 1..MaxDim}

\* static_cast<Uint32>(x).  The cast reduces modulo 2^32; the sizes and counts
\* of this model are non-negative and far below 2^32 (the largest integer the
\* TLC represents is 2^31 - 1), where the cast changes nothing.
Uint32(x) == x

----------------------------------------------------------------------------
(* Objects *)

Obj(kind, usage) ==
    [kind |-> kind, usage |-> usage, live |-> TRUE, releases |-> 0,
     w |-> 0, h |-> 0, format |-> "", samples |-> 0,
     size |-> 0, mapped |-> FALSE, data |-> <<>>]

\* what is left of an object once SDL has released it
Released(o) ==
    [o EXCEPT !.live = FALSE, !.releases = @ + 1, !.w = 0, !.h = 0,
              !.size = 0, !.mapped = FALSE, !.data = <<>>]

Live(h) == h \in 1..Len(objs) /\ objs[h].live

LiveOfUsage(usage) ==
    {h \in 1..Len(objs) : objs[h].live /\ objs[h].usage = usage}

\* a byte of memory nothing has been written to
Unwritten == [t |-> "?", v |-> 0, k |-> 0]

----------------------------------------------------------------------------
(* Model::Model (Model.cpp) *)

\* A scene as the importer returns it: a sequence of meshes.  A mesh has its
\* vertex positions, its first texture-coordinate channel (<<>> when the mesh
\* has none) and its faces, each a sequence of indices into the mesh's own
\* vertices.  Coordinates are small integers standing for the floats.
QuadScene ==
    << [mVertices |-> << <<-1, -1, 0>>, <<1, -1, 0>>, <<1, 1, 0>>, <<-1, 1, 0>> >>,
        mTextureCoords |-> << <<0, 0>>, <<1, 0>>, <<1, 1>>, <<0, 1>> >>,
        mFaces |-> << <<0, 1, 2>>, <<0, 2, 3>> >>] >>

TwoMeshScene ==
    << [mVertices |-> << <<2, 2, 2>> >>,
        mTextureCoords |-> <<>>,
        mFaces |-> << <<0>> >>],
       [mVertices |-> << <<3, 0, 0>>, <<0, 3, 0>> >>,
        mTextureCoords |-> << <<1, 0>>, <<0, 1>> >>,
        mFaces |-> << <<0, 1>> >>] >>

Scenes == {QuadScene, TwoMeshScene}

RECURSIVE Concat(_)
Concat(seqs) == IF seqs = <<>> THEN <<>> ELSE Head(seqs) \o Concat(Tail(seqs))

\* the vertices one mesh contributes (Model.cpp:17-26)
MeshVertices(mesh) ==
    [j \in 1..Len(mesh.mVertices) |->
        [position |-> mesh.mVertices[j],
         uv |-> IF mesh.mTextureCoords # <<>>
                  THEN mesh.mTextureCoords[j]
                  ELSE <<0, 0>>]]

\* the indices one mesh contributes (Model.cpp:27-31)
MeshIndices(mesh) == Concat(mesh.mFaces)

\* the loops over the meshes of the scene (Model.cpp:15-32)
ModelOf(scene) ==
    [vertices |-> Concat([i \in 1..Len(scene) |-> MeshVertices(scene[i])]),
     indices |-> Concat([i \in 1..Len(scene) |-> MeshIndices(scene[i])])]

EmptyModel == [vertices |-> <<>>, indices |-> <<>>]

----------------------------------------------------------------------------
(* Memory images *)

VertexFloats(v) == v.position \o v.uv

\* the bytes of a std::vector<Vertex>: five floats of four bytes per vertex
VertexBytes(vs) ==
    [i \in 1..(Len(vs) * SizeofVertex) |->
        LET j == (i - 1) \div SizeofVertex
            b == (i - 1) % SizeofVertex
        IN  [t |-> "f", v |-> VertexFloats(vs[j + 1])[(b \div 4) + 1], k |-> b % 4]]

\* the bytes of a std::vector<Uint32>, little-endian
IndexBytes(is) ==
    [i \in 1..(Len(is) * SizeofUint32) |->
        LET j == (i - 1) \div SizeofUint32
            b == (i - 1) % SizeofUint32
        IN  [t |-> "u", v |-> (is[j + 1] \div (256 ^ b)) % 256, k |-> b]]

\* std::ranges::copy(bytes, data + offset) into mapped memory
WriteAt(data, offset, bytes) ==
    [i \in 1..Len(data) |->
        IF offset < i /\ i <= offset + Len(bytes) THEN bytes[i - offset] ELSE data[i]]

\* the bytes [offset, offset + size) of a memory image
ReadAt(data, offset, size) ==
    [i \in 1..size |->
        IF offset + i <= Len(data) THEN data[offset + i] ELSE Unwritten]

----------------------------------------------------------------------------
(* LoadShader (main.cpp:24-75) *)

Contains(filename, part) == \E i \in 1..Len(filename) : filename[i] = part

\* LoadShader trying MSL before SPIRV
LoadShader_MslFirst(backendFormats, shaderFilename, fileOpens) ==
    LET stage == IF Contains(shaderFilename, ".vert") THEN "VERTEX"
                 ELSE IF Contains(shaderFilename, ".frag") THEN "FRAGMENT"
                 ELSE "none"
        chosen ==
            IF "MSL" \in backendFormats
              THEN [fullPath |-> <<"Content/Shaders/Compiled/MSL",
                                   shaderFilename \o <<".msl">> >>,
                    format |-> "MSL", entrypoint |-> "main0"]
            ELSE IF "SPIRV" \in backendFormats
              THEN [fullPath |-> <<"Content/Shaders/Compiled/SPIRV",
                                   shaderFilename \o <<".spv">> >>,
                    format |-> "SPIRV", entrypoint |-> "main"]
            ELSE IF "DXIL" \in backendFormats
              THEN [fullPath |-> <<"Content/Shaders/Compiled/DXIL",
                                   shaderFilename \o <<".dxil">> >>,
                    format |-> "DXIL", entrypoint |-> "main"]
            ELSE [fullPath |-> <<>>, format |-> "none", entrypoint |-> "main"]
        info == [stage |-> stage, format |-> chosen.format,
                 entrypoint |-> chosen.entrypoint, fullPath |-> chosen.fullPath]
    IN  IF stage = "none"
          THEN [throws |-> "Unrecognized shader stage!", info |-> info]
        ELSE IF chosen.format = "none"
          THEN [throws |-> "No supported shader formats available", info |-> info]
        ELSE IF ~fileOpens
          THEN [throws |-> "Couldn't open shader file", info |-> info]
        ELSE [throws |-> "", info |-> info]

\* A file name is the sequence of its parts, <<"TexturedQuad", ".frag">>, and a
\* path the sequence of its components.  The result: the exception thrown (""
\* for none) and what the call has set when it reaches SDL_CreateGPUShader.
LoadShader(backendFormats, shaderFilename, fileOpens) ==
    LET stage == IF Contains(shaderFilename, ".vert") THEN "VERTEX"
                 ELSE IF Contains(shaderFilename, ".frag") THEN "FRAGMENT"
                 ELSE "none"
        chosen ==
            IF "SPIRV" \in backendFormats
              THEN [fullPath |-> <<"Content/Shaders/Compiled/SPIRV",
                                   shaderFilename \o <<".spv">> >>,
                    format |-> "SPIRV", entrypoint |-> "main"]
            ELSE IF "MSL" \in backendFormats
              THEN [fullPath |-> <<"Content/Shaders/Compiled/MSL",
                                   shaderFilename \o <<".msl">> >>,
                    format |-> "MSL", entrypoint |-> "main0"]
            ELSE IF "DXIL" \in backendFormats
              THEN [fullPath |-> <<"Content/Shaders/Compiled/DXIL",
                                   shaderFilename \o <<".dxil">> >>,
                    format |-> "DXIL", entrypoint |-> "main"]
            ELSE [fullPath |-> <<>>, format |-> "none", entrypoint |-> "main"]
        info == [stage |-> stage, format |-> chosen.format,
                 entrypoint |-> chosen.entrypoint, fullPath |-> chosen.fullPath]
    IN  IF stage = "none"
          THEN [throws |-> "Unrecognized shader stage!", info |-> info]
        ELSE IF chosen.format = "none"
          THEN [throws |-> "No supported shader formats available", info |-> info]
        ELSE IF ~fileOpens
          THEN [throws |-> "Couldn't open shader file", info |-> info]
        ELSE [throws |-> "", info |-> info]

----------------------------------------------------------------------------
(* State of the program while a callback runs *)

\* The part of the state a callback works on.  error is "" until an exception
\* is thrown; the statements after a throw do not run.
Cur == [context |-> context, local |-> local, objs |-> objs, calls |-> calls,
        error |-> ""]

Throw(s, message) == [s EXCEPT !.error = message]

Call(op, h) == [op |-> op, obj |-> h]

\* an SDL_Create... call that succeeds: the new object's handle is Len(s.objs) + 1
Create(s, op, o) ==
    [s EXCEPT !.objs = Append(@, o),
              !.calls = Append(@, Call(op, Len(s.objs) + 1))]

NewHandle(s) == Len(s.objs) + 1

\* an SDL_Release... or SDL_Destroy... call; SDL ignores a null handle
Release(s, op, h) ==
    IF h = NULL
      THEN s
      ELSE [s EXCEPT !.objs[h] = Released(@),
                     !.calls = Append(@, Call(op, h))]

\* the state a callback leaves behind
Commit(s, next) ==
    /\ context' = s.context
    /\ local' = s.local
    /\ objs' = s.objs
    /\ calls' = s.calls
    /\ error' = s.error
    /\ pc' = IF s.error = "" THEN next ELSE "terminated"

----------------------------------------------------------------------------
(* AppState (AppState.h, AppState.cpp) *)

InitialContext ==
    [window |-> NULL, device |-> NULL, pipeline |-> NULL,
     sampleCount |-> SDL_GPU_SAMPLECOUNT_4,
     texture |-> NULL, msaaTexture |-> NULL,
     depthStencilFormat |-> "INVALID", depthStencilTexture |-> NULL,
     vertexBuffer |-> NULL, indexBuffer |-> NULL, sampler |-> NULL,
     model |-> EmptyModel,
     m_windowWidth |-> 0, m_windowHeight |-> 0]

\* SDL_GetWindowSize fails only for a handle that is no window
WindowValid(s) ==
    /\ s.context.window \in 1..Len(s.objs)
    /\ s.objs[s.context.window].kind = "window"
    /\ s.objs[s.context.window].live

\* SDL_GetWindowSize(window, &m_windowWidth, &m_windowHeight)
GetWindowSize(c) ==
    [c EXCEPT !.m_windowWidth = windowSize.w, !.m_windowHeight = windowSize.h]

GetWindowWidth(c) == GetWindowSize(c).m_windowWidth

\* GetWindowHeight returning the other member
GetWindowHeight_ReturnsWidth(c) == GetWindowSize(c).m_windowWidth

GetWindowHeight(c) == GetWindowSize(c).m_windowHeight

----------------------------------------------------------------------------
(* CreateMsaaTexture, CreateDepthStencilTexture (main.cpp:100-134) *)

\* created: whether SDL_CreateGPUTexture succeeds
CreateMsaaTexture(s, created) ==
    IF ~WindowValid(s)
      THEN Throw(s, "Couldn't get window size")
    ELSE
      LET c == GetWindowSize(s.context)
          msaaTextureCreateInfo ==
              [Obj("texture", "COLOR_TARGET") EXCEPT
                  !.format = platform.swapchainFormat,
                  !.w = Uint32(GetWindowWidth(s.context)),
                  !.h = Uint32(GetWindowHeight(s.context)),
                  !.samples = s.context.sampleCount]
      IN  IF ~created
            THEN Throw([s EXCEPT !.context = [c EXCEPT !.msaaTexture = NULL]],
                       "Couldn't create GPU texture")
            ELSE [Create(s, "SDL_CreateGPUTexture", msaaTextureCreateInfo)
                    EXCEPT !.context = [c EXCEPT !.msaaTexture = NewHandle(s)]]

CreateDepthStencilTexture(s, created) ==
    IF ~WindowValid(s)
      THEN Throw(s, "Couldn't get window size")
    ELSE
      LET c == GetWindowSize(s.context)
          depthStencilTextureCreateInfo ==
              [Obj("texture", "DEPTH_STENCIL_TARGET") EXCEPT
                  !.format = s.context.depthStencilFormat,
                  !.w = Uint32(GetWindowWidth(s.context)),
                  !.h = Uint32(GetWindowHeight(s.context)),
                  !.samples = s.context.sampleCount]
      IN  IF ~created
            THEN Throw([s EXCEPT !.context = [c EXCEPT !.depthStencilTexture = NULL]],
                       "Couldn't create GPU texture")
            ELSE [Create(s, "SDL_CreateGPUTexture", depthStencilTextureCreateInfo)
                    EXCEPT !.context = [c EXCEPT !.depthStencilTexture = NewHandle(s)]]

----------------------------------------------------------------------------
(* LoadImage (main.cpp:77-98) *)

\* pixel formats a decoder can produce, with the order of the channels in memory
PixelFormats == {"ABGR8888", "ARGB8888"}

ChannelOrder(format) ==
    IF format = "ABGR8888" THEN <<"R", "G", "B", "A">> ELSE <<"B", "G", "R", "A">>

\* the pixels of a w x h image of the given format, pitch = 4 * w
Pixels(format, w, h) ==
    [i \in 1..(4 * w * h) |->
        [t |-> ChannelOrder(format)[((i - 1) % 4) + 1], v |-> (i - 1) \div 4, k |-> 0]]

Surface(format, w, h) ==
    [Obj("surface", "") EXCEPT !.format = format, !.w = w, !.h = h,
                               !.size = 4 * w, !.data = Pixels(format, w, h)]

\* a call of LoadImage and the channel count it was given
LoadImageCall(desiredChannels) ==
    [op |-> "LoadImage", obj |-> NULL, desiredChannels |-> desiredChannels]

\* outcome: "IMG_Load fails", "SDL_ConvertSurface fails" or "ok"; decoded: the
\* format the decoder produces.  The surface returned is left in local.imageData.
ImageOutcomes == {"ok", "IMG_Load fails", "SDL_ConvertSurface fails"}

\* LoadImage leaving the decoded surface alone when it rejects the channel count
LoadImage_KeepsDecoded(s0, desiredChannels, decoded, outcome) ==
    LET s == [s0 EXCEPT !.calls = Append(@, LoadImageCall(desiredChannels))]
    IN  IF outcome = "IMG_Load fails"
          THEN Throw(s, "Couldn't load image")
        ELSE
          LET s1 == Create(s, "IMG_Load", Surface(decoded, 1, 1))
              result == NewHandle(s)
          IN  IF desiredChannels # 4
                THEN Throw(s1, "Unsupported number of channels")
              ELSE IF decoded # "ABGR8888"
                THEN IF outcome = "SDL_ConvertSurface fails"
                       THEN [Release(s1, "SDL_DestroySurface", result)
                               EXCEPT !.local.imageData = NULL]
                       ELSE [Release(Create(s1, "SDL_ConvertSurface",
                                            Surface("ABGR8888", 1, 1)),
                                     "SDL_DestroySurface", result)
                               EXCEPT !.local.imageData = NewHandle(s1)]
              ELSE [s1 EXCEPT !.local.imageData = result]

LoadImage(s0, desiredChannels, decoded, outcome) ==
    LET s == [s0 EXCEPT !.calls = Append(@, LoadImageCall(desiredChannels))]
    IN  IF outcome = "IMG_Load fails"
          THEN Throw(s, "Couldn't load image")
        ELSE
          LET s1 == Create(s, "IMG_Load", Surface(decoded, 1, 1))
              result == NewHandle(s)
          IN  IF desiredChannels # 4
                THEN Throw(Release(s1, "SDL_DestroySurface", result),
                           "Unsupported number of channels")
              ELSE IF decoded # "ABGR8888"
                THEN IF outcome = "SDL_ConvertSurface fails"
                       THEN [Release(s1, "SDL_DestroySurface", result)
                               EXCEPT !.local.imageData = NULL]
                       ELSE [Release(Create(s1, "SDL_ConvertSurface",
                                            Surface("ABGR8888", 1, 1)),
                                     "SDL_DestroySurface", result)
                               EXCEPT !.local.imageData = NewHandle(s1)]
              ELSE [s1 EXCEPT !.local.imageData = result]

----------------------------------------------------------------------------
(* Initial state *)

InitialLocal ==
    [vertexShader |-> NULL, fragmentShader |-> NULL, imageData |-> NULL,
     vertexBufferSize |-> 0, indexBufferSize |-> 0,
     transferBuffer |-> NULL, textureTransferBuffer |-> NULL,
     textureTransferBufferSize |-> 0]

\* a command buffer: the device it was acquired from, the commands recorded on
\* it, how often it was submitted
NoCommandBuffer == [acquired |-> FALSE, device |-> NULL, commands |-> <<>>, submits |-> 0]

NoFrame == [cmd |-> NoCommandBuffer, swapchainTexture |-> NULL, result |-> ""]

Init ==
    /\ pc = "SDL_Init"
    /\ context = InitialContext
    /\ local = InitialLocal
    /\ objs = <<>>
    /\ windowSize = [w |-> 0, h |-> 0]
    /\ platform \in [shaderFormats : SUBSET ShaderFormats,
                     swapchainFormat : SwapchainFormats,
                     scene : Scenes]
    /\ events = <<>>
    /\ resizes = 0
    /\ transferCommandBuffer = NoCommandBuffer
    /\ frame = NoFrame
    /\ calls = <<>>
    /\ error = ""

----------------------------------------------------------------------------
(* SDL_AppInit (main.cpp:136-383), one action per statement that calls out *)

initOnly == <<windowSize, platform, events, resizes, frame>>

\* main.cpp:137-138
Init_SDL_Init ==
    /\ pc = "SDL_Init"
    /\ \E ok \in BOOLEAN :
         Commit(IF ok THEN Cur ELSE Throw(Cur, "Couldn't initialize SDL"),
                "new AppState")
    /\ UNCHANGED <<initOnly, transferCommandBuffer>>

\* main.cpp:142-143: AppState's constructor constructs the member model
Init_new_AppState ==
    /\ pc = "new AppState"
    /\ \E ok \in BOOLEAN :
         LET s == [Cur EXCEPT !.calls = Append(@, Call("Assimp::Importer::ReadFile", NULL))]
         IN  Commit(IF ok THEN [s EXCEPT !.context.model = ModelOf(platform.scene)]
                          ELSE Throw(s, "Couldn't load model"),
                    "SDL_CreateWindow")
    /\ UNCHANGED <<initOnly, transferCommandBuffer>>

\* main.cpp:145-148
Init_SDL_CreateWindow ==
    /\ pc = "SDL_CreateWindow"
    /\ \/ /\ Commit(Throw(Cur, "Couldn't create window"), "")
          /\ UNCHANGED windowSize
       \/ /\ Commit([Create(Cur, "SDL_CreateWindow", Obj("window", ""))
                       EXCEPT !.context.window = NewHandle(Cur)],
                    "SDL_CreateGPUDevice")
          /\ windowSize' \in WindowSizes
    /\ UNCHANGED <<platform, events, resizes, frame, transferCommandBuffer>>

\* main.cpp:150-155
Init_SDL_CreateGPUDevice ==
    /\ pc = "SDL_CreateGPUDevice"
    /\ \E ok \in BOOLEAN :
         Commit(IF ok THEN [Create(Cur, "SDL_CreateGPUDevice", Obj("device", ""))
                              EXCEPT !.context.device = NewHandle(Cur)]
                      ELSE Throw(Cur, "Couldn't create GPU device"),
                "SDL_ClaimWindowForGPUDevice")
    /\ UNCHANGED <<initOnly, transferCommandBuffer>>

\* main.cpp:160-161
Init_SDL_ClaimWindowForGPUDevice ==
    /\ pc = "SDL_ClaimWindowForGPUDevice"
    /\ \E ok \in BOOLEAN :
         Commit(IF ok THEN Cur ELSE Throw(Cur, "Couldn't claim window for GPU device"),
                "SDL_GPUTextureSupportsFormat")
    /\ UNCHANGED <<initOnly, transferCommandBuffer>>

\* the probing choosing D32_FLOAT_S8_UINT first
ProbeDepthStencilFormat_D32First(d24, d32) ==
    IF d32 THEN "D32_FLOAT_S8_UINT"
    ELSE IF d24 THEN "D24_UNORM_S8_UINT"
    ELSE "INVALID"

\* the format the probing selects, "INVALID" when it throws (main.cpp:163-173)
ProbeDepthStencilFormat(d24, d32) ==
    IF d24 THEN "D24_UNORM_S8_UINT"
    ELSE IF d32 THEN "D32_FLOAT_S8_UINT"
    ELSE "INVALID"

\* a call of SDL_GPUTextureSupportsFormat and what the device answered
Probe(format, supported) ==
    [op |-> "SDL_GPUTextureSupportsFormat", obj |-> NULL,
     format |-> format, supported |-> supported]

\* d24, d32: whether the device supports the format as a depth/stencil target;
\* the second call is made only when the first returned false
Init_SDL_GPUTextureSupportsFormat ==
    /\ pc = "SDL_GPUTextureSupportsFormat"
    /\ \E d24 \in BOOLEAN, d32 \in BOOLEAN :
         LET format == ProbeDepthStencilFormat(d24, d32)
             s == [Cur EXCEPT !.calls =
                      @ \o <<Probe("D24_UNORM_S8_UINT", d24)>>
                        \o (IF d24 THEN <<>> ELSE <<Probe("D32_FLOAT_S8_UINT", d32)>>)]
         IN  Commit(IF format # "INVALID"
                      THEN [s EXCEPT !.context.depthStencilFormat = format]
                      ELSE Throw(s, "Couldn't find a suitable depth stencil format"),
                    "LoadShader vertex")
    /\ UNCHANGED <<initOnly, transferCommandBuffer>>

\* one call of LoadShader and the null check that follows it
LoadShaderStep(s, shaderFilename, fileOpens, created, message) ==
    LET r == LoadShader(platform.shaderFormats, shaderFilename, fileOpens)
        s1 == [s EXCEPT !.calls = Append(@, Call("LoadShader", NULL))]
    IN  IF r.throws # "" THEN Throw(s1, r.throws)
        ELSE IF ~created THEN Throw(s1, message)
        ELSE Create(s1, "SDL_CreateGPUShader",
                    [Obj("shader", r.info.stage) EXCEPT !.format = r.info.format,
                                                        !.data = r.info])

\* main.cpp:175-178
Init_LoadVertexShader ==
    /\ pc = "LoadShader vertex"
    /\ \E fileOpens \in BOOLEAN, created \in BOOLEAN :
         /\ ~fileOpens => ~created
         /\ LET s == LoadShaderStep(Cur, <<"TexturedQuadWithMatrix", ".vert">>,
                                 fileOpens, created, "Couldn't load vertex shader")
            IN  Commit(IF s.error = "" THEN [s EXCEPT !.local.vertexShader = NewHandle(Cur)]
                                    ELSE s,
                    "LoadShader fragment")
    /\ UNCHANGED <<initOnly, transferCommandBuffer>>

\* main.cpp:180-183
Init_LoadFragmentShader ==
    /\ pc = "LoadShader fragment"
    /\ \E fileOpens \in BOOLEAN, created \in BOOLEAN :
         /\ ~fileOpens => ~created
         /\ LET s == LoadShaderStep(Cur, <<"TexturedQuad", ".frag">>,
                                 fileOpens, created, "Couldn't load fragment shader")
            IN  Commit(IF s.error = "" THEN [s EXCEPT !.local.fragmentShader = NewHandle(Cur)]
                                    ELSE s,
                    "SDL_CreateGPUGraphicsPipeline")
    /\ UNCHANGED <<initOnly, transferCommandBuffer>>

\* main.cpp:185-235
Init_SDL_CreateGPUGraphicsPipeline ==
    /\ pc = "SDL_CreateGPUGraphicsPipeline"
    /\ \E ok \in BOOLEAN :
         LET pipelineCreateInfo ==
                 [Obj("pipeline", "") EXCEPT
                     !.format = platform.swapchainFormat,
                     !.samples = context.sampleCount,
                     !.data = [vertex_shader |-> local.vertexShader,
                               fragment_shader |-> local.fragmentShader,
                               depth_stencil_format |-> context.depthStencilFormat,
                               has_depth_stencil_target |-> TRUE]]
         IN  Commit(IF ok THEN [Create(Cur, "SDL_CreateGPUGraphicsPipeline",
                                       pipelineCreateInfo)
                                  EXCEPT !.context.pipeline = NewHandle(Cur)]
                          ELSE Throw(Cur, "Couldn't create GPU graphics pipeline"),
                    "CreateMsaaTexture")
    /\ UNCHANGED <<initOnly, transferCommandBuffer>>

\* main.cpp:237
Init_CreateMsaaTexture ==
    /\ pc = "CreateMsaaTexture"
    /\ \E created \in BOOLEAN :
         Commit(CreateMsaaTexture(Cur, created), "CreateDepthStencilTexture")
    /\ UNCHANGED <<initOnly, transferCommandBuffer>>

\* main.cpp:238
Init_CreateDepthStencilTexture ==
    /\ pc = "CreateDepthStencilTexture"
    /\ \E created \in BOOLEAN :
         Commit(CreateDepthStencilTexture(Cur, created), "SDL_ReleaseGPUShader vertex")
    /\ UNCHANGED <<initOnly, transferCommandBuffer>>

\* main.cpp:240
Init_ReleaseVertexShader ==
    /\ pc = "SDL_ReleaseGPUShader vertex"
    /\ Commit(Release(Cur, "SDL_ReleaseGPUShader", local.vertexShader),
              "SDL_ReleaseGPUShader fragment")
    /\ UNCHANGED <<initOnly, transferCommandBuffer>>

\* main.cpp:241
Init_ReleaseFragmentShader ==
    /\ pc = "SDL_ReleaseGPUShader fragment"
    /\ Commit(Release(Cur, "SDL_ReleaseGPUShader", local.fragmentShader),
              "SDL_CreateGPUSampler")
    /\ UNCHANGED <<initOnly, transferCommandBuffer>>

\* main.cpp:243-251: the result is stored unchecked
Init_SDL_CreateGPUSampler ==
    /\ pc = "SDL_CreateGPUSampler"
    /\ \E ok \in BOOLEAN :
         Commit(IF ok THEN [Create(Cur, "SDL_CreateGPUSampler", Obj("sampler", "LINEAR"))
                              EXCEPT !.context.sampler = NewHandle(Cur)]
                      ELSE [Cur EXCEPT !.context.sampler = NULL],
                "LoadImage")
    /\ UNCHANGED <<initOnly, transferCommandBuffer>>

\* main.cpp:253
Init_LoadImage ==
    /\ pc = "LoadImage"
    /\ \E decoded \in PixelFormats, outcome \in ImageOutcomes :
         \* no conversion is attempted on an image that needs none
         /\ outcome = "SDL_ConvertSurface fails" => decoded # "ABGR8888"
         /\ Commit(LoadImage(Cur, 4, decoded, outcome), "SDL_CreateGPUTexture")
    /\ UNCHANGED <<initOnly, transferCommandBuffer>>

\* main.cpp:255-267: imageData->w reads through the pointer LoadImage returned;
\* through a null pointer the read faults
Init_SDL_CreateGPUTexture ==
    /\ pc = "SDL_CreateGPUTexture"
    /\ IF local.imageData = NULL
         THEN Commit(Throw(Cur, "SIGSEGV"), "")
         ELSE \E ok \in BOOLEAN :
                LET textureCreateInfo ==
                        [Obj("texture", "SAMPLER") EXCEPT
                            !.format = "R8G8B8A8_UNORM",
                            !.w = Uint32(objs[local.imageData].w),
                            !.h = Uint32(objs[local.imageData].h)]
                IN  Commit(IF ok THEN [Create(Cur, "SDL_CreateGPUTexture", textureCreateInfo)
                                         EXCEPT !.context.texture = NewHandle(Cur)]
                                 ELSE Throw([Cur EXCEPT !.context.texture = NULL],
                                            "Couldn't create GPU texture"),
                           "Model")
    /\ UNCHANGED <<initOnly, transferCommandBuffer>>

\* main.cpp:269
Init_Model ==
    /\ pc = "Model"
    /\ \E ok \in BOOLEAN :
         LET s == [Cur EXCEPT !.calls = Append(@, Call("Assimp::Importer::ReadFile", NULL))]
         IN  Commit(IF ok THEN [s EXCEPT !.context.model = ModelOf(platform.scene)]
                          ELSE Throw(s, "Couldn't load model"),
                    "SDL_CreateGPUBuffer vertex")
    /\ UNCHANGED <<initOnly, transferCommandBuffer>>

\* main.cpp:271-280
Init_CreateVertexBuffer ==
    /\ pc = "SDL_CreateGPUBuffer vertex"
    /\ \E ok \in BOOLEAN :
         LET size == Uint32(Len(context.model.vertices) * SizeofVertex)
             s == [Cur EXCEPT !.local.vertexBufferSize = size]
             vertexBufferCreateInfo ==
                 [Obj("buffer", "VERTEX") EXCEPT
                     !.size = size, !.data = [i \in 1..size |-> Unwritten]]
         IN  Commit(IF ok THEN [Create(s, "SDL_CreateGPUBuffer", vertexBufferCreateInfo)
                                  EXCEPT !.context.vertexBuffer = NewHandle(s)]
                          ELSE Throw(s, "Couldn't create GPU buffer"),
                    "SDL_CreateGPUBuffer index")
    /\ UNCHANGED <<initOnly, transferCommandBuffer>>

\* main.cpp:282-291
Init_CreateIndexBuffer ==
    /\ pc = "SDL_CreateGPUBuffer index"
    /\ \E ok \in BOOLEAN :
         LET size == Uint32(Len(context.model.indices) * SizeofUint32)
             s == [Cur EXCEPT !.local.indexBufferSize = size]
             indexBufferCreateInfo ==
                 [Obj("buffer", "INDEX") EXCEPT
                     !.size = size, !.data = [i \in 1..size |-> Unwritten]]
         IN  Commit(IF ok THEN [Create(s, "SDL_CreateGPUBuffer", indexBufferCreateInfo)
                                  EXCEPT !.context.indexBuffer = NewHandle(s)]
                          ELSE Throw(s, "Couldn't create GPU buffer"),
                    "SDL_CreateGPUTransferBuffer")
    /\ UNCHANGED <<initOnly, transferCommandBuffer>>

\* main.cpp:293-300
Init_CreateTransferBuffer ==
    /\ pc = "SDL_CreateGPUTransferBuffer"
    /\ \E ok \in BOOLEAN :
         LET size == Uint32(local.vertexBufferSize + local.indexBufferSize)
             transferBufferCreateInfo ==
                 [Obj("transfer", "UPLOAD") EXCEPT
                     !.size = size, !.data = [i \in 1..size |-> Unwritten]]
         IN  Commit(IF ok THEN [Create(Cur, "SDL_CreateGPUTransferBuffer",
                                       transferBufferCreateInfo)
                                  EXCEPT !.local.transferBuffer = NewHandle(Cur)]
                          ELSE Throw(Cur, "Couldn't create transfer buffer"),
                    "SDL_MapGPUTransferBuffer")
    /\ UNCHANGED <<initOnly, transferCommandBuffer>>

\* SDL_MapGPUTransferBuffer without the null check after it
Map_Unchecked(s, h, ok) ==
    IF ok THEN [s EXCEPT !.objs[h].mapped = TRUE,
                         !.calls = Append(@, Call("SDL_MapGPUTransferBuffer", h))]
          ELSE s

\* SDL_MapGPUTransferBuffer and the null check after it
Map(s, h, ok) ==
    IF ok THEN [s EXCEPT !.objs[h].mapped = TRUE,
                         !.calls = Append(@, Call("SDL_MapGPUTransferBuffer", h))]
          ELSE Throw(s, "Couldn't map transfer buffer")

\* std::ranges::copy into the mapped memory of a transfer buffer
Write(s, h, offset, bytes) ==
    [s EXCEPT !.objs[h].data = WriteAt(@, offset, bytes),
              !.calls = Append(@, Call("write", h))]

\* the unmap left out
Unmap_LeftOut(s, h) == s

Unmap(s, h) ==
    [s EXCEPT !.objs[h].mapped = FALSE,
              !.calls = Append(@, Call("SDL_UnmapGPUTransferBuffer", h))]

\* main.cpp:302-305
Init_MapTransferBuffer ==
    /\ pc = "SDL_MapGPUTransferBuffer"
    /\ \E ok \in BOOLEAN :
         Commit(Map(Cur, local.transferBuffer, ok), "copy vertices and indices")
    /\ UNCHANGED <<initOnly, transferCommandBuffer>>

\* where the two copies put their bytes (main.cpp:307-315)
VertexDataOffset == 0

\* the index data placed by the size of the index data
IndexDataOffset_ByIndexSize == local.indexBufferSize

IndexDataOffset == local.vertexBufferSize

Init_WriteTransferBuffer ==
    /\ pc = "copy vertices and indices"
    /\ Commit(Write(Write(Cur, local.transferBuffer,
                          VertexDataOffset, VertexBytes(context.model.vertices)),
                    local.transferBuffer,
                    IndexDataOffset, IndexBytes(context.model.indices)),
              "SDL_UnmapGPUTransferBuffer")
    /\ UNCHANGED <<initOnly, transferCommandBuffer>>

\* main.cpp:317
Init_UnmapTransferBuffer ==
    /\ pc = "SDL_UnmapGPUTransferBuffer"
    /\ Commit(Unmap(Cur, local.transferBuffer), "SDL_CreateGPUTransferBuffer texture")
    /\ UNCHANGED <<initOnly, transferCommandBuffer>>

\* main.cpp:319-325; size is the surface's pitch
Init_CreateTextureTransferBuffer ==
    /\ pc = "SDL_CreateGPUTransferBuffer texture"
    /\ \E ok \in BOOLEAN :
         LET size == Uint32(objs[local.imageData].size * objs[local.imageData].h)
             s == [Cur EXCEPT !.local.textureTransferBufferSize = size]
             textureTransferBufferCreateInfo ==
                 [Obj("transfer", "UPLOAD") EXCEPT
                     !.size = size, !.data = [i \in 1..size |-> Unwritten]]
         IN  Commit(IF ok THEN [Create(s, "SDL_CreateGPUTransferBuffer",
                                       textureTransferBufferCreateInfo)
                                  EXCEPT !.local.textureTransferBuffer = NewHandle(s)]
                          ELSE Throw(s, "Couldn't create transfer buffer"),
                    "SDL_MapGPUTransferBuffer texture")
    /\ UNCHANGED <<initOnly, transferCommandBuffer>>

\* main.cpp:327-330
Init_MapTextureTransferBuffer ==
    /\ pc = "SDL_MapGPUTransferBuffer texture"
    /\ \E ok \in BOOLEAN :
         Commit(Map(Cur, local.textureTransferBuffer, ok), "copy pixels")
    /\ UNCHANGED <<initOnly, transferCommandBuffer>>

\* main.cpp:332-336
Init_WriteTextureTransferBuffer ==
    /\ pc = "copy pixels"
    /\ Commit(Write(Cur, local.textureTransferBuffer, 0, objs[local.imageData].data),
              "SDL_UnmapGPUTransferBuffer texture")
    /\ UNCHANGED <<initOnly, transferCommandBuffer>>

\* main.cpp:338
Init_UnmapTextureTransferBuffer ==
    /\ pc = "SDL_UnmapGPUTransferBuffer texture"
    /\ Commit(Unmap(Cur, local.textureTransferBuffer), "SDL_AcquireGPUCommandBuffer")
    /\ UNCHANGED <<initOnly, transferCommandBuffer>>

\* main.cpp:340-342
Init_AcquireCommandBuffer ==
    /\ pc = "SDL_AcquireGPUCommandBuffer"
    /\ \E ok \in BOOLEAN :
         /\ Commit(IF ok THEN Cur ELSE Throw(Cur, "Couldn't acquire GPU command buffer"),
                   "SDL_BeginGPUCopyPass")
         /\ transferCommandBuffer' =
                IF ok THEN [NoCommandBuffer EXCEPT !.acquired = TRUE,
                                                   !.device = context.device]
                      ELSE transferCommandBuffer
    /\ UNCHANGED initOnly

\* a command recorded on a command buffer
Record(cmd, command) == [cmd EXCEPT !.commands = Append(@, command)]

\* main.cpp:344
Init_BeginCopyPass ==
    /\ pc = "SDL_BeginGPUCopyPass"
    /\ Commit(Cur, "SDL_UploadToGPUBuffer vertex")
    /\ transferCommandBuffer' =
           Record(transferCommandBuffer, [op |-> "SDL_BeginGPUCopyPass"])
    /\ UNCHANGED initOnly

Upload(op, transfer_buffer, offset, destination, size) ==
    [op |-> op, transfer_buffer |-> transfer_buffer, offset |-> offset,
     destination |-> destination, size |-> size]

\* main.cpp:346-353
Init_UploadVertexBuffer ==
    /\ pc = "SDL_UploadToGPUBuffer vertex"
    /\ Commit([Cur EXCEPT !.calls = Append(@, Call("SDL_UploadToGPUBuffer",
                                                   local.transferBuffer))],
              "SDL_UploadToGPUBuffer index")
    /\ transferCommandBuffer' =
           Record(transferCommandBuffer,
                  Upload("SDL_UploadToGPUBuffer", local.transferBuffer, 0,
                         context.vertexBuffer, local.vertexBufferSize))
    /\ UNCHANGED initOnly

\* main.cpp:355-358
Init_UploadIndexBuffer ==
    /\ pc = "SDL_UploadToGPUBuffer index"
    /\ Commit([Cur EXCEPT !.calls = Append(@, Call("SDL_UploadToGPUBuffer",
                                                   local.transferBuffer))],
              "SDL_UploadToGPUTexture")
    /\ transferCommandBuffer' =
           Record(transferCommandBuffer,
                  Upload("SDL_UploadToGPUBuffer", local.transferBuffer,
                         local.vertexBufferSize,
                         context.indexBuffer, local.indexBufferSize))
    /\ UNCHANGED initOnly

\* main.cpp:360-368; the region is the whole image
Init_UploadTexture ==
    /\ pc = "SDL_UploadToGPUTexture"
    /\ Commit([Cur EXCEPT !.calls = Append(@, Call("SDL_UploadToGPUTexture",
                                                   local.textureTransferBuffer))],
              "SDL_EndGPUCopyPass")
    /\ transferCommandBuffer' =
           Record(transferCommandBuffer,
                  Upload("SDL_UploadToGPUTexture", local.textureTransferBuffer, 0,
                         context.texture,
                         4 * objs[local.imageData].w * objs[local.imageData].h))
    /\ UNCHANGED initOnly

\* main.cpp:370
Init_EndCopyPass ==
    /\ pc = "SDL_EndGPUCopyPass"
    /\ Commit(Cur, "SDL_SubmitGPUCommandBuffer")
    /\ transferCommandBuffer' =
           Record(transferCommandBuffer, [op |-> "SDL_EndGPUCopyPass"])
    /\ UNCHANGED initOnly

\* what the uploads of a submitted command buffer do to the objects: each
\* destination receives the bytes [offset, offset + size) of its transfer buffer
RECURSIVE Execute(_, _)
Execute(table, commands) ==
    IF commands = <<>> THEN table
    ELSE LET c == Head(commands)
         IN  IF c.op \in {"SDL_UploadToGPUBuffer", "SDL_UploadToGPUTexture"}
               THEN Execute([table EXCEPT ![c.destination].data =
                                ReadAt(table[c.transfer_buffer].data, c.offset, c.size)],
                            Tail(commands))
               ELSE Execute(table, Tail(commands))

\* the startup going on without the submission
Init_SubmitTransfer_LeftOut ==
    /\ pc = "SDL_SubmitGPUCommandBuffer"
    /\ Commit(Cur, "SDL_ReleaseGPUTransferBuffer")
    /\ UNCHANGED <<initOnly, transferCommandBuffer>>

\* main.cpp:372-373
Init_SubmitTransfer ==
    /\ pc = "SDL_SubmitGPUCommandBuffer"
    /\ \E ok \in BOOLEAN :
         /\ Commit(IF ok
                     THEN [Cur EXCEPT
                             !.objs = Execute(@, transferCommandBuffer.commands),
                             !.calls = Append(@, Call("SDL_SubmitGPUCommandBuffer", NULL))]
                     ELSE Throw(Cur, "Couldn't submit GPU command buffer"),
                   "SDL_ReleaseGPUTransferBuffer")
         /\ transferCommandBuffer' =
                IF ok THEN [transferCommandBuffer EXCEPT !.submits = @ + 1]
                      ELSE transferCommandBuffer
    /\ UNCHANGED initOnly

\* main.cpp:375
Init_ReleaseTransferBuffer ==
    /\ pc = "SDL_ReleaseGPUTransferBuffer"
    /\ Commit(Release(Cur, "SDL_ReleaseGPUTransferBuffer", local.transferBuffer),
              "SDL_ReleaseGPUTransferBuffer texture")
    /\ UNCHANGED <<initOnly, transferCommandBuffer>>

\* main.cpp:376
Init_ReleaseTextureTransferBuffer ==
    /\ pc = "SDL_ReleaseGPUTransferBuffer texture"
    /\ Commit(Release(Cur, "SDL_ReleaseGPUTransferBuffer", local.textureTransferBuffer),
              "SDL_DestroySurface")
    /\ UNCHANGED <<initOnly, transferCommandBuffer>>

\* main.cpp:378
Init_DestroySurface ==
    /\ pc = "SDL_DestroySurface"
    /\ Commit(Release(Cur, "SDL_DestroySurface", local.imageData), "SDL_ShowWindow")
    /\ UNCHANGED <<initOnly, transferCommandBuffer>>

\* main.cpp:380-382: return SDL_APP_CONTINUE; the locals go out of scope
Init_ShowWindow ==
    /\ pc = "SDL_ShowWindow"
    /\ Commit([Cur EXCEPT !.local = InitialLocal], "loop")
    /\ UNCHANGED <<initOnly, transferCommandBuffer>>

SDL_AppInit ==
    \/ Init_SDL_Init
    \/ Init_new_AppState
    \/ Init_SDL_CreateWindow
    \/ Init_SDL_CreateGPUDevice
    \/ Init_SDL_ClaimWindowForGPUDevice
    \/ Init_SDL_GPUTextureSupportsFormat
    \/ Init_LoadVertexShader
    \/ Init_LoadFragmentShader
    \/ Init_SDL_CreateGPUGraphicsPipeline
    \/ Init_CreateMsaaTexture
    \/ Init_CreateDepthStencilTexture
    \/ Init_ReleaseVertexShader
    \/ Init_ReleaseFragmentShader
    \/ Init_SDL_CreateGPUSampler
    \/ Init_LoadImage
    \/ Init_SDL_CreateGPUTexture
    \/ Init_Model
    \/ Init_CreateVertexBuffer
    \/ Init_CreateIndexBuffer
    \/ Init_CreateTransferBuffer
    \/ Init_MapTransferBuffer
    \/ Init_WriteTransferBuffer
    \/ Init_UnmapTransferBuffer
    \/ Init_CreateTextureTransferBuffer
    \/ Init_MapTextureTransferBuffer
    \/ Init_WriteTextureTransferBuffer
    \/ Init_UnmapTextureTransferBuffer
    \/ Init_AcquireCommandBuffer
    \/ Init_BeginCopyPass
    \/ Init_UploadVertexBuffer
    \/ Init_UploadIndexBuffer
    \/ Init_UploadTexture
    \/ Init_EndCopyPass
    \/ Init_SubmitTransfer
    \/ Init_ReleaseTransferBuffer
    \/ Init_ReleaseTextureTransferBuffer
    \/ Init_DestroySurface
    \/ Init_ShowWindow

----------------------------------------------------------------------------
(* The window system *)

EventTypes == {"SDL_EVENT_QUIT", "SDL_EVENT_WINDOW_RESIZED", "SDL_EVENT_KEY_DOWN"}

\* the user resizes the window (it is SDL_WINDOW_RESIZABLE, main.cpp:146): the
\* size changes and SDL queues the event
WindowResized ==
    /\ pc = "loop"
    /\ resizes < MaxResizes
    /\ Len(events) < MaxQueue
    /\ \E size \in WindowSizes \ {windowSize} : windowSize' = size
    /\ events' = Append(events, "SDL_EVENT_WINDOW_RESIZED")
    /\ resizes' = resizes + 1
    /\ UNCHANGED <<pc, context, local, objs, platform, transferCommandBuffer,
                   frame, calls, error>>

\* any other event arrives
EventPosted ==
    /\ pc = "loop"
    /\ Len(events) < MaxQueue
    /\ \E type \in EventTypes \ {"SDL_EVENT_WINDOW_RESIZED"} :
         events' = Append(events, type)
    /\ UNCHANGED <<pc, context, local, objs, windowSize, platform, resizes,
                   transferCommandBuffer, frame, calls, error>>

----------------------------------------------------------------------------
(* SDL_AppEvent (main.cpp:385-405) *)

\* the resize case without the release of the old MSAA target
OnWindowResized_KeepsOldTarget(s, msaaCreated, depthCreated) ==
    LET s2 == CreateMsaaTexture(s, msaaCreated)
        s3 == IF s2.error # "" THEN s2
              ELSE Release(s2, "SDL_ReleaseGPUTexture", s2.context.depthStencilTexture)
        s4 == IF s3.error # "" THEN s3
              ELSE CreateDepthStencilTexture(s3, depthCreated)
    IN  s4

\* the resize case without the creation of the new depth/stencil target
OnWindowResized_NoNewDepthTarget(s, msaaCreated, depthCreated) ==
    LET s1 == Release(s, "SDL_ReleaseGPUTexture", s.context.msaaTexture)
        s2 == CreateMsaaTexture(s1, msaaCreated)
        s3 == IF s2.error # "" THEN s2
              ELSE Release(s2, "SDL_ReleaseGPUTexture", s2.context.depthStencilTexture)
    IN  s3

\* the resize case releasing the pipeline as well
OnWindowResized_ReleasesPipeline(s, msaaCreated, depthCreated) ==
    LET s0 == Release(s, "SDL_ReleaseGPUGraphicsPipeline", s.context.pipeline)
        s1 == Release(s0, "SDL_ReleaseGPUTexture", s0.context.msaaTexture)
        s2 == CreateMsaaTexture(s1, msaaCreated)
        s3 == IF s2.error # "" THEN s2
              ELSE Release(s2, "SDL_ReleaseGPUTexture", s2.context.depthStencilTexture)
        s4 == IF s3.error # "" THEN s3
              ELSE CreateDepthStencilTexture(s3, depthCreated)
    IN  s4

\* case SDL_EVENT_WINDOW_RESIZED (main.cpp:392-400)
OnWindowResized(s, msaaCreated, depthCreated) ==
    LET s1 == Release(s, "SDL_ReleaseGPUTexture", s.context.msaaTexture)
        s2 == CreateMsaaTexture(s1, msaaCreated)
        s3 == IF s2.error # "" THEN s2
              ELSE Release(s2, "SDL_ReleaseGPUTexture", s2.context.depthStencilTexture)
        s4 == IF s3.error # "" THEN s3
              ELSE CreateDepthStencilTexture(s3, depthCreated)
    IN  s4

\* the switch with the quit case falling through into the resize case
AppEvent_Fallthrough(s, type, msaaCreated, depthCreated) ==
    CASE type \in {"SDL_EVENT_QUIT", "SDL_EVENT_WINDOW_RESIZED"} ->
           [state |-> OnWindowResized(s, msaaCreated, depthCreated),
            result |-> "SDL_APP_CONTINUE"]
      [] OTHER ->
           [state |-> s, result |-> "SDL_APP_CONTINUE"]

\* the switch: the state the handler leaves and the value it returns
AppEvent(s, type, msaaCreated, depthCreated) ==
    CASE type = "SDL_EVENT_QUIT" ->
           [state |-> s, result |-> "SDL_APP_SUCCESS"]
      [] type = "SDL_EVENT_WINDOW_RESIZED" ->
           [state |-> OnWindowResized(s, msaaCreated, depthCreated),
            result |-> "SDL_APP_CONTINUE"]
      [] OTHER ->
           [state |-> s, result |-> "SDL_APP_CONTINUE"]

SDL_AppEvent ==
    /\ pc = "loop"
    /\ events # <<>>
    /\ \E msaaCreated \in BOOLEAN, depthCreated \in BOOLEAN :
         \* the outcome of a call that is not made is left at TRUE
         /\ Head(events) # "SDL_EVENT_WINDOW_RESIZED" => msaaCreated /\ depthCreated
         /\ ~msaaCreated => depthCreated
         /\ LET r == AppEvent(Cur, Head(events), msaaCreated, depthCreated)
            IN  Commit(r.state,
                       IF r.result = "SDL_APP_SUCCESS" THEN "SDL_AppQuit" ELSE "loop")
    /\ events' = Tail(events)
    /\ frame' = NoFrame
    /\ UNCHANGED <<windowSize, platform, resizes, transferCommandBuffer>>

----------------------------------------------------------------------------
(* SDL_AppIterate (main.cpp:407-471) *)

\* what SDL_WaitAndAcquireGPUSwapchainTexture can do: fail, succeed without an
\* image (swapchainTexture = NULL), succeed with an image
SwapchainOutcomes == {"fails", "no image", "image"}

\* main.cpp:420-448
BeginAndBind(c, swapchainTexture) ==
    << [op |-> "SDL_BeginGPURenderPass",
        texture |-> c.msaaTexture, load_op |-> "CLEAR", store_op |-> "RESOLVE",
        resolve_texture |-> swapchainTexture,
        depth_texture |-> c.depthStencilTexture, depth_load_op |-> "CLEAR",
        clear_depth |-> 1],
       [op |-> "SDL_BindGPUGraphicsPipeline", pipeline |-> c.pipeline],
       [op |-> "SDL_BindGPUVertexBuffers", first_slot |-> 0,
        buffer |-> c.vertexBuffer, offset |-> 0],
       [op |-> "SDL_BindGPUIndexBuffer", buffer |-> c.indexBuffer, offset |-> 0,
        index_element_size |-> 32],
       [op |-> "SDL_BindGPUFragmentSamplers", first_slot |-> 0,
        texture |-> c.texture, sampler |-> c.sampler] >>

\* the uniform pushed after the draw instead of before it
PushAndDraw_DrawFirst(c) ==
    << [op |-> "SDL_DrawGPUIndexedPrimitives",
        num_indices |-> Uint32(Len(c.model.indices)), num_instances |-> 1,
        first_index |-> 0, vertex_offset |-> 0, first_instance |-> 0],
       [op |-> "SDL_PushGPUVertexUniformData", slot_index |-> 0,
        aspect |-> <<GetWindowWidth(c), GetWindowHeight(c)>>],
       [op |-> "SDL_EndGPURenderPass"] >>

\* the draw covering the vertex count instead of the index count
PushAndDraw_VertexCount(c) ==
    << [op |-> "SDL_PushGPUVertexUniformData", slot_index |-> 0,
        aspect |-> <<GetWindowWidth(c), GetWindowHeight(c)>>],
       [op |-> "SDL_DrawGPUIndexedPrimitives",
        num_indices |-> Uint32(Len(c.model.vertices)), num_instances |-> 1,
        first_index |-> 0, vertex_offset |-> 0, first_instance |-> 0],
       [op |-> "SDL_EndGPURenderPass"] >>

\* main.cpp:450-464; the matrix is kept as the aspect ratio it was built from
PushAndDraw(c) ==
    << [op |-> "SDL_PushGPUVertexUniformData", slot_index |-> 0,
        aspect |-> <<GetWindowWidth(c), GetWindowHeight(c)>>],
       [op |-> "SDL_DrawGPUIndexedPrimitives",
        num_indices |-> Uint32(Len(c.model.indices)), num_instances |-> 1,
        first_index |-> 0, vertex_offset |-> 0, first_instance |-> 0],
       [op |-> "SDL_EndGPURenderPass"] >>

\* SDL_AppIterate returning early, without submitting, when there is no image
AppIterate_ReturnsEarly(s, acquired, swapchain, submitted) ==
    LET cmd0 == [NoCommandBuffer EXCEPT !.acquired = TRUE, !.device = s.context.device]
        out(state, cmd, image, result) ==
            [state |-> state, cmd |-> cmd, swapchainTexture |-> image, result |-> result]
    IN  IF ~acquired
          THEN out(Throw(s, "Couldn't acquire GPU command buffer"),
                   NoCommandBuffer, NULL, "")
        ELSE IF swapchain = "fails"
          THEN out(Throw(s, "Couldn't acquire swapchain texture"), cmd0, NULL, "")
        ELSE IF swapchain = "no image"
          THEN out(s, cmd0, NULL, "SDL_APP_CONTINUE")
        ELSE
          LET cmd2 == [cmd0 EXCEPT !.commands =
                          BeginAndBind(s.context, SwapchainImage) \o PushAndDraw(s.context)]
              s2 == [s EXCEPT !.context = GetWindowSize(@)]
          IN  IF ~submitted
                THEN out(Throw(s2, "Couldn't submit GPU command buffer"),
                         cmd2, SwapchainImage, "")
                ELSE out(s2, [cmd2 EXCEPT !.submits = @ + 1],
                         SwapchainImage, "SDL_APP_CONTINUE")

\* The call as a whole: the state it leaves, its command buffer, the swapchain
\* image it got, what it returned ("" when it threw).
AppIterate(s, acquired, swapchain, submitted) ==
    LET cmd0 == [NoCommandBuffer EXCEPT !.acquired = TRUE, !.device = s.context.device]
        swapchainTexture == IF swapchain = "image" THEN SwapchainImage ELSE NULL
        out(state, cmd, image, result) ==
            [state |-> state, cmd |-> cmd, swapchainTexture |-> image, result |-> result]
    IN  IF ~acquired
          THEN out(Throw(s, "Couldn't acquire GPU command buffer"),
                   NoCommandBuffer, NULL, "")
        ELSE IF swapchain = "fails"
          THEN out(Throw(s, "Couldn't acquire swapchain texture"), cmd0, NULL, "")
        ELSE
          LET cmd1 == IF swapchainTexture # NULL
                        THEN [cmd0 EXCEPT !.commands =
                                 BeginAndBind(s.context, swapchainTexture)]
                        ELSE cmd0
          IN  IF swapchainTexture # NULL /\ ~WindowValid(s)
                THEN out(Throw(s, "Couldn't get window size"), cmd1, swapchainTexture, "")
              ELSE
                LET s2 == IF swapchainTexture # NULL
                            THEN [s EXCEPT !.context = GetWindowSize(@)]
                            ELSE s
                    cmd2 == IF swapchainTexture # NULL
                              THEN [cmd1 EXCEPT !.commands = @ \o PushAndDraw(s.context)]
                              ELSE cmd1
                IN  IF ~submitted
                      THEN out(Throw(s2, "Couldn't submit GPU command buffer"),
                               cmd2, swapchainTexture, "")
                      ELSE out(s2, [cmd2 EXCEPT !.submits = @ + 1],
                               swapchainTexture, "SDL_APP_CONTINUE")

SDL_AppIterate ==
    /\ pc = "loop"
    /\ \E acquired \in BOOLEAN, swapchain \in SwapchainOutcomes, submitted \in BOOLEAN :
         \* the outcome of a call that is not made is left at its first value
         /\ ~acquired => swapchain = "fails"
         /\ swapchain = "fails" => ~submitted
         /\ LET r == AppIterate(Cur, acquired, swapchain, submitted)
            IN  /\ Commit(r.state, "loop")
                /\ frame' = [cmd |-> r.cmd, swapchainTexture |-> r.swapchainTexture,
                             result |-> r.result]
    /\ UNCHANGED <<windowSize, platform, events, resizes, transferCommandBuffer>>

----------------------------------------------------------------------------
(* SDL_AppQuit (main.cpp:473-474): the body is empty *)

AppQuit(s) == s

SDL_AppQuit ==
    /\ pc = "SDL_AppQuit"
    /\ Commit(AppQuit(Cur), "exited")
    /\ UNCHANGED <<windowSize, platform, events, resizes, transferCommandBuffer, frame>>

----------------------------------------------------------------------------

Next ==
    \/ SDL_AppInit
    \/ WindowResized
    \/ EventPosted
    \/ SDL_AppEvent
    \/ SDL_AppIterate
    \/ SDL_AppQuit

Spec == Init /\ [][Next]_vars

----------------------------------------------------------------------------
(* LoadImage on its own: one call with any channel count *)

LoadImageInit ==
    /\ pc = "LoadImage alone"
    /\ context = InitialContext
    /\ local = InitialLocal
    /\ objs = <<>>
    /\ windowSize = [w |-> 0, h |-> 0]
    /\ platform \in [shaderFormats : SUBSET ShaderFormats,
                     swapchainFormat : SwapchainFormats,
                     scene : Scenes]
    /\ events = <<>>
    /\ resizes = 0
    /\ transferCommandBuffer = NoCommandBuffer
    /\ frame = NoFrame
    /\ calls = <<>>
    /\ error = ""

CallLoadImage ==
    /\ pc = "LoadImage alone"
    /\ \E desiredChannels \in 0..MaxChannels, decoded \in PixelFormats,
          outcome \in ImageOutcomes :
         /\ outcome = "SDL_ConvertSurface fails" =>
                decoded # "ABGR8888" /\ desiredChannels = 4
         /\ Commit(LoadImage(Cur, desiredChannels, decoded, outcome), "returned")
    /\ UNCHANGED <<initOnly, transferCommandBuffer>>

LoadImageSpec == LoadImageInit /\ [][CallLoadImage]_vars

----------------------------------------------------------------------------
(* The render targets *)

RenderTargetUsages == {"COLOR_TARGET", "DEPTH_STENCIL_TARGET"}

\* every handle SDL has ever returned for a texture of the usage
HandlesOfUsage(usage) == {h \in 1..Len(objs) : objs[h].usage = usage}

\* C1: at every point at most one MSAA color target and at most one
\* depth/stencil target is live; whenever a target is created, every target
\* of the same usage created before it has been released by an earlier call;
\* and no target handle is released twice.
C1_OneLiveTargetNoDoubleRelease ==
    LET created == {i \in 1..Len(calls) : calls[i].op = "SDL_CreateGPUTexture"}
        released == {j \in 1..Len(calls) : calls[j].op = "SDL_ReleaseGPUTexture"}
    IN  \A usage \in RenderTargetUsages :
           LET targets == HandlesOfUsage(usage)
           IN  /\ Cardinality(LiveOfUsage(usage)) <= 1
               /\ \A h \in targets :
                     /\ objs[h].releases <= 1
                     /\ Cardinality({j \in released : calls[j].obj = h}) <= 1
               /\ \A i \in created :
                     calls[i].obj \in targets
                        => \A h \in targets :
                              h < calls[i].obj
                                 => \E j \in released : j < i /\ calls[j].obj = h

\* two resize events have been handled: the third generation of both targets is live
C1_Witness ==
    /\ pc = "loop"
    /\ \A usage \in RenderTargetUsages :
          /\ Cardinality(HandlesOfUsage(usage)) = 3
          /\ Cardinality(LiveOfUsage(usage)) = 1

\* SDL_AppEvent has just handled a resize event without throwing
ResizeHandled ==
    /\ pc = "loop" /\ pc' = "loop"
    /\ events # <<>> /\ events' = Tail(events)
    /\ Head(events) = "SDL_EVENT_WINDOW_RESIZED"

\* the target has the size of the window, and the sample count 4
TargetFitsWindow(table, h, size) ==
    /\ h \in 1..Len(table)
    /\ table[h].live
    /\ table[h].w = size.w
    /\ table[h].h = size.h
    /\ table[h].samples = 4

InStartupAfterTargets ==
    pc \notin {"SDL_Init", "new AppState", "SDL_CreateWindow", "SDL_CreateGPUDevice",
               "SDL_ClaimWindowForGPUDevice", "SDL_GPUTextureSupportsFormat",
               "LoadShader vertex", "LoadShader fragment",
               "SDL_CreateGPUGraphicsPipeline", "CreateMsaaTexture",
               "CreateDepthStencilTexture", "loop", "SDL_AppQuit", "exited",
               "terminated"}

\* C2: when SDL_AppEvent has handled a resize event, both targets have the
\* width and the height the window has then, sample count 4, and the format
\* the target they replace had; and during startup, once both are created,
\* both have the size of the window and sample count 4.
C2_TargetsSizedToWindow ==
    /\ [][ResizeHandled =>
            /\ TargetFitsWindow(objs', context'.msaaTexture, windowSize')
            /\ TargetFitsWindow(objs', context'.depthStencilTexture, windowSize')
            /\ objs'[context'.msaaTexture].usage = "COLOR_TARGET"
            /\ objs'[context'.depthStencilTexture].usage = "DEPTH_STENCIL_TARGET"
            /\ objs'[context'.msaaTexture].format = objs[context.msaaTexture].format
            /\ objs'[context'.depthStencilTexture].format
                  = objs[context.depthStencilTexture].format
            /\ objs[context.msaaTexture].samples = 4
            /\ objs[context.depthStencilTexture].samples = 4]_vars
    /\ [](InStartupAfterTargets =>
            /\ TargetFitsWindow(objs, context.msaaTexture, windowSize)
            /\ TargetFitsWindow(objs, context.depthStencilTexture, windowSize))

\* a resize to 800 x 600 has been handled: both targets were replaced and the
\* new ones are 800 wide and 600 high
C2_Witness ==
    /\ pc = "loop"
    /\ events = <<>>
    /\ Cardinality(HandlesOfUsage("COLOR_TARGET")) = 2
    /\ Cardinality(HandlesOfUsage("DEPTH_STENCIL_TARGET")) = 2
    /\ TargetFitsWindow(objs, context.msaaTexture, [w |-> 800, h |-> 600])
    /\ TargetFitsWindow(objs, context.depthStencilTexture, [w |-> 800, h |-> 600])

\* the command that begins the render pass of the latest frame, if it has one
FrameBegins ==
    /\ frame.cmd.commands # <<>>
    /\ frame.cmd.commands[1].op = "SDL_BeginGPURenderPass"

\* C3: the render pass of a frame binds an MSAA target and a depth/stencil
\* target that are live when the frame runs and that are the newest ones
\* created (after a resize: the ones that resize created), and whenever a
\* frame can start both targets of the context are live.
C3_RenderPassBindsLiveTargets ==
    /\ pc = "loop" =>
          /\ Live(context.msaaTexture)
          /\ Live(context.depthStencilTexture)
    /\ frame.cmd.commands # <<>> =>
          LET begin == frame.cmd.commands[1]
          IN  /\ begin.op = "SDL_BeginGPURenderPass"
              /\ Live(begin.texture)
              /\ Live(begin.depth_texture)
              /\ objs[begin.texture].usage = "COLOR_TARGET"
              /\ objs[begin.depth_texture].usage = "DEPTH_STENCIL_TARGET"
              /\ \A h \in HandlesOfUsage("COLOR_TARGET") : h <= begin.texture
              /\ \A h \in HandlesOfUsage("DEPTH_STENCIL_TARGET") : h <= begin.depth_texture

\* a frame has drawn after a resize was handled
C3_Witness ==
    /\ FrameBegins
    /\ frame.result = "SDL_APP_CONTINUE"
    /\ Cardinality(HandlesOfUsage("COLOR_TARGET")) >= 2
    /\ Cardinality(HandlesOfUsage("DEPTH_STENCIL_TARGET")) >= 2

----------------------------------------------------------------------------
(* Teardown *)

ResourceKinds == {"pipeline", "buffer", "texture", "sampler", "device"}

\* C4: once the program has left SDL_AppQuit, no pipeline, buffer, texture,
\* sampler or render target and no device is live any more.
C4_NothingLiveAfterQuit ==
    pc = "exited" =>
       \A h \in 1..Len(objs) : objs[h].kind \in ResourceKinds => ~objs[h].live

----------------------------------------------------------------------------
(* The staging upload *)

TransferHandles == {h \in 1..Len(objs) : objs[h].kind = "transfer"}

\* the place of a call in the life of a transfer buffer
StageOf(call) ==
    CASE call.op = "SDL_CreateGPUTransferBuffer" -> 1
      [] call.op = "SDL_MapGPUTransferBuffer" -> 2
      [] call.op = "write" -> 3
      [] call.op = "SDL_UnmapGPUTransferBuffer" -> 4
      [] call.op \in {"SDL_UploadToGPUBuffer", "SDL_UploadToGPUTexture"} -> 5
      [] call.op = "SDL_SubmitGPUCommandBuffer" -> 6
      [] call.op = "SDL_ReleaseGPUTransferBuffer" -> 7
      [] OTHER -> 0

\* the calls made on the transfer buffer h and the submissions, in order
CallsAbout(h) ==
    SelectSeq(calls, LAMBDA c : c.obj = h \/ c.op = "SDL_SubmitGPUCommandBuffer")

\* C5: the calls on each transfer buffer come in the order create, map, write,
\* unmap, upload, submit, release (writes and uploads may repeat, nothing else
\* does, nothing is skipped and nothing follows the release), and when
\* SDL_AppInit has returned both transfer buffers have been released.
C5_TransferBufferLifecycle ==
    /\ \A h \in TransferHandles :
          LET life == CallsAbout(h)
          IN  /\ Len(life) >= 1
              /\ StageOf(life[1]) = 1
              /\ \A i \in 1..(Len(life) - 1) :
                    \/ StageOf(life[i + 1]) = StageOf(life[i]) + 1
                    \/ /\ StageOf(life[i + 1]) = StageOf(life[i])
                       /\ StageOf(life[i]) \in {3, 5}
              /\ objs[h].mapped <=> StageOf(life[Len(life)]) \in {2, 3}
              /\ objs[h].live <=> StageOf(life[Len(life)]) # 7
    /\ pc = "loop" =>
          /\ Cardinality(TransferHandles) = 2
          /\ \A h \in TransferHandles : ~objs[h].live

\* startup is over and both transfer buffers went through their whole life
C5_Witness ==
    /\ pc = "loop"
    /\ Cardinality(TransferHandles) = 2
    /\ \A h \in TransferHandles :
          /\ objs[h].releases = 1
          /\ StageOf(CallsAbout(h)[Len(CallsAbout(h))]) = 7

UploadedInStartup(resource) ==
    \E j \in 1..Len(transferCommandBuffer.commands) :
       /\ transferCommandBuffer.commands[j].op
             \in {"SDL_UploadToGPUBuffer", "SDL_UploadToGPUTexture"}
       /\ transferCommandBuffer.commands[j].destination = resource

FrameCommands(op) ==
    {i \in 1..Len(frame.cmd.commands) : frame.cmd.commands[i].op = op}

\* C7: no call of SDL_AppIterate happens before the startup command buffer is
\* submitted; a frame that draws is recorded on a command buffer of the device
\* the startup command buffer was submitted to, after that submission, and the
\* vertex buffer, index buffer and texture it binds are destinations of the
\* uploads of that command buffer.
C7_DrawAfterUploadSubmitted ==
    /\ transferCommandBuffer.submits = 0 => frame = NoFrame
    /\ FrameCommands("SDL_DrawGPUIndexedPrimitives") # {} =>
          /\ transferCommandBuffer.submits = 1
          /\ frame.cmd.device = transferCommandBuffer.device
          /\ frame.cmd.device # NULL
          /\ \A i \in FrameCommands("SDL_BindGPUVertexBuffers") :
                UploadedInStartup(frame.cmd.commands[i].buffer)
          /\ \A i \in FrameCommands("SDL_BindGPUIndexBuffer") :
                UploadedInStartup(frame.cmd.commands[i].buffer)
          /\ \A i \in FrameCommands("SDL_BindGPUFragmentSamplers") :
                UploadedInStartup(frame.cmd.commands[i].texture)

\* a frame has drawn and was submitted
C7_Witness ==
    /\ FrameCommands("SDL_DrawGPUIndexedPrimitives") # {}
    /\ FrameCommands("SDL_BindGPUVertexBuffers") # {}
    /\ frame.cmd.submits = 1
    /\ transferCommandBuffer.submits = 1

----------------------------------------------------------------------------
(* Shader format selection *)

ShaderFileOfStage(stage) ==
    IF stage = "VERTEX" THEN <<"TexturedQuadWithMatrix", ".vert">>
                        ELSE <<"TexturedQuad", ".frag">>

\* C8: a shader is created in the SPIRV format if the device advertises SPIRV,
\* else in MSL if it advertises MSL, else in DXIL if it advertises DXIL; with
\* none of the three LoadShader throws the unsupported-format error and no
\* shader exists; the entry point is "main0" exactly for MSL and "main"
\* otherwise; directory and extension are those of the format.
C8_ShaderFormatSelection ==
    LET advertised == platform.shaderFormats
        spirv == "SPIRV" \in advertised
        msl == ~spirv /\ "MSL" \in advertised
        dxil == ~spirv /\ ~msl /\ "DXIL" \in advertised
        shaders == {h \in 1..Len(objs) : objs[h].kind = "shader"}
    IN  /\ \A h \in shaders : objs[h].live =>
              LET info == objs[h].data
                  name == ShaderFileOfStage(info.stage)
              IN  /\ spirv \/ msl \/ dxil
                  /\ spirv => /\ info.format = "SPIRV"
                              /\ info.entrypoint = "main"
                              /\ info.fullPath = <<"Content/Shaders/Compiled/SPIRV",
                                                   name \o <<".spv">> >>
                  /\ msl => /\ info.format = "MSL"
                            /\ info.entrypoint = "main0"
                            /\ info.fullPath = <<"Content/Shaders/Compiled/MSL",
                                                 name \o <<".msl">> >>
                  /\ dxil => /\ info.format = "DXIL"
                             /\ info.entrypoint = "main"
                             /\ info.fullPath = <<"Content/Shaders/Compiled/DXIL",
                                                  name \o <<".dxil">> >>
        /\ (~spirv /\ ~msl /\ ~dxil) =>
              /\ shaders = {}
              /\ (\E i \in 1..Len(calls) : calls[i].op = "LoadShader") =>
                    /\ pc = "terminated"
                    /\ error = "No supported shader formats available"

\* the device advertises MSL and DXIL but not SPIRV, and both shaders exist
C8_Witness ==
    /\ platform.shaderFormats = {"MSL", "DXIL"}
    /\ local.vertexShader # NULL /\ objs[local.vertexShader].live
    /\ local.fragmentShader # NULL /\ objs[local.fragmentShader].live
    /\ objs[local.fragmentShader].data.entrypoint = "main0"

----------------------------------------------------------------------------
(* The frame *)

\* C9: a frame that acquired its command buffer and for which the swapchain
\* acquisition succeeded without an image records no command at all (no render
\* pass, no bind, no draw) and submits the command buffer once; unless that
\* submission itself fails, nothing is thrown and the frame returns
\* SDL_APP_CONTINUE.
C9_NoImageFrameSubmitsEmpty ==
    (/\ frame.cmd.acquired
     /\ frame.swapchainTexture = NULL
     /\ error # "Couldn't acquire swapchain texture")
       => /\ frame.cmd.commands = <<>>
          /\ error \in {"", "Couldn't submit GPU command buffer"}
          /\ error = "" => /\ frame.cmd.submits = 1
                           /\ frame.result = "SDL_APP_CONTINUE"
                           /\ pc = "loop"
          /\ error # "" => frame.cmd.submits = 0 /\ pc = "terminated"

\* a frame without an image was submitted empty and the loop goes on
C9_Witness ==
    /\ frame.cmd.acquired
    /\ frame.swapchainTexture = NULL
    /\ frame.cmd.commands = <<>>
    /\ frame.cmd.submits = 1
    /\ frame.result = "SDL_APP_CONTINUE"
    /\ pc = "loop"

\* C10: a frame that acquired a swapchain image records exactly one indexed
\* draw, with index count = the number of indices of the loaded mesh, instance
\* count 1, first index 0, vertex offset 0 and first instance 0; for the quad
\* the index count is 6.
C10_OneIndexedDraw ==
    frame.swapchainTexture = SwapchainImage =>
       LET draws == FrameCommands("SDL_DrawGPUIndexedPrimitives")
       IN  /\ Cardinality(draws) = 1
           /\ \A i \in draws :
                 LET draw == frame.cmd.commands[i]
                 IN  /\ draw.num_indices = Len(context.model.indices)
                     /\ draw.num_instances = 1
                     /\ draw.first_index = 0
                     /\ draw.vertex_offset = 0
                     /\ draw.first_instance = 0
                     /\ platform.scene = QuadScene =>
                           /\ context.model.indices = <<0, 1, 2, 0, 2, 3>>
                           /\ draw.num_indices = 6

\* a frame has drawn the quad
C10_Witness ==
    /\ frame.swapchainTexture = SwapchainImage
    /\ frame.result = "SDL_APP_CONTINUE"
    /\ context.model.indices = <<0, 1, 2, 0, 2, 3>>
    /\ \E i \in FrameCommands("SDL_DrawGPUIndexedPrimitives") :
          frame.cmd.commands[i].num_indices = 6

----------------------------------------------------------------------------
(* The event switch *)

\* SDL_AppEvent handles an event of the type in this step
EventHandled(type) ==
    /\ pc = "loop"
    /\ events # <<>> /\ events' = Tail(events)
    /\ Head(events) = type

\* C11: handling a quit event returns success (SDL goes on to SDL_AppQuit)
\* and makes no call, releases nothing, creates nothing and leaves the
\* context as it was; handling a resize event never leads to SDL_AppQuit: it
\* returns continue and the loop goes on, unless recreating a target throws;
\* handling any other event returns continue and leaves objects, context
\* and calls as they were.
C11_EventCasesIndependent ==
    [][/\ EventHandled("SDL_EVENT_QUIT") =>
             /\ pc' = "SDL_AppQuit"
             /\ error' = ""
             /\ objs' = objs /\ context' = context /\ calls' = calls
       /\ EventHandled("SDL_EVENT_WINDOW_RESIZED") =>
             /\ pc' \in {"loop", "terminated"}
             /\ pc' = "loop" <=> error' = ""
             /\ error' \in {"", "Couldn't create GPU texture"}
       /\ EventHandled("SDL_EVENT_KEY_DOWN") =>
             /\ pc' = "loop"
             /\ error' = ""
             /\ objs' = objs /\ context' = context /\ calls' = calls]_vars

\* a quit event was handled after a resize: SDL_AppQuit is next and the
\* targets of that resize are still the live ones
C11_Witness ==
    /\ pc = "SDL_AppQuit"
    /\ resizes >= 1
    /\ \A usage \in RenderTargetUsages :
          /\ Cardinality(HandlesOfUsage(usage)) = 2
          /\ LiveOfUsage(usage) # {}

----------------------------------------------------------------------------
(* Failures during startup *)

\* the steps of SDL_AppInit that create an object of one of the kinds window,
\* device, shader, pipeline, texture, buffer, transfer buffer: where the step
\* is, where a successful step leads, the kind created, the errors thrown
CreationSteps ==
    {[at |-> "SDL_CreateWindow", next |-> "SDL_CreateGPUDevice", kind |-> "window",
      messages |-> {"Couldn't create window"}],
     [at |-> "SDL_CreateGPUDevice", next |-> "SDL_ClaimWindowForGPUDevice",
      kind |-> "device", messages |-> {"Couldn't create GPU device"}],
     [at |-> "LoadShader vertex", next |-> "LoadShader fragment", kind |-> "shader",
      messages |-> {"Couldn't load vertex shader", "Couldn't open shader file",
                    "No supported shader formats available"}],
     [at |-> "LoadShader fragment", next |-> "SDL_CreateGPUGraphicsPipeline",
      kind |-> "shader",
      messages |-> {"Couldn't load fragment shader", "Couldn't open shader file",
                    "No supported shader formats available"}],
     [at |-> "SDL_CreateGPUGraphicsPipeline", next |-> "CreateMsaaTexture",
      kind |-> "pipeline", messages |-> {"Couldn't create GPU graphics pipeline"}],
     [at |-> "CreateMsaaTexture", next |-> "CreateDepthStencilTexture",
      kind |-> "texture", messages |-> {"Couldn't create GPU texture"}],
     [at |-> "CreateDepthStencilTexture", next |-> "SDL_ReleaseGPUShader vertex",
      kind |-> "texture", messages |-> {"Couldn't create GPU texture"}],
     [at |-> "SDL_CreateGPUTexture", next |-> "Model",
      kind |-> "texture", messages |-> {"Couldn't create GPU texture"}],
     [at |-> "SDL_CreateGPUBuffer vertex", next |-> "SDL_CreateGPUBuffer index",
      kind |-> "buffer", messages |-> {"Couldn't create GPU buffer"}],
     [at |-> "SDL_CreateGPUBuffer index", next |-> "SDL_CreateGPUTransferBuffer",
      kind |-> "buffer", messages |-> {"Couldn't create GPU buffer"}],
     [at |-> "SDL_CreateGPUTransferBuffer", next |-> "SDL_MapGPUTransferBuffer",
      kind |-> "transfer", messages |-> {"Couldn't create transfer buffer"}],
     [at |-> "SDL_CreateGPUTransferBuffer texture",
      next |-> "SDL_MapGPUTransferBuffer texture",
      kind |-> "transfer", messages |-> {"Couldn't create transfer buffer"}]}

\* the step has thrown: the process is over with one of the errors, no object
\* was added, and there is no frame
Aborted(messages) ==
    /\ pc' = "terminated"
    /\ error' \in messages
    /\ Len(objs') = Len(objs)
    /\ frame' = NoFrame

\* the step has made the object and startup goes on
Created(step) ==
    /\ pc' = step.next
    /\ error' = ""
    /\ Len(objs') = Len(objs) + 1
    /\ objs'[Len(objs')].kind = step.kind
    /\ objs'[Len(objs')].live

\* the step has mapped the transfer buffer and startup goes on
Mapped(h, next) ==
    /\ pc' = next
    /\ error' = ""
    /\ objs'[h].mapped

\* C12: each startup step that creates a window, device, shader, pipeline,
\* texture, buffer or transfer buffer, maps a transfer buffer, acquires the
\* command buffer or submits it either succeeds (the object exists, the buffer
\* is mapped, the command buffer is acquired, is submitted) and leads to the
\* next step, or throws its error and ends the process right there; nothing
\* happens after the process has ended; the loop is entered only from the last
\* step of a startup without error; and frames exist only in the loop.
C12_FailureAbortsStartup ==
    [][/\ \A step \in CreationSteps :
             (pc = step.at /\ (step.at = "SDL_CreateGPUTexture" => local.imageData # NULL))
                => Created(step) \/ Aborted(step.messages)
       /\ pc = "SDL_MapGPUTransferBuffer" =>
             \/ Mapped(local.transferBuffer, "copy vertices and indices")
             \/ Aborted({"Couldn't map transfer buffer"})
       /\ pc = "SDL_MapGPUTransferBuffer texture" =>
             \/ Mapped(local.textureTransferBuffer, "copy pixels")
             \/ Aborted({"Couldn't map transfer buffer"})
       /\ pc = "SDL_AcquireGPUCommandBuffer" =>
             \/ /\ pc' = "SDL_BeginGPUCopyPass" /\ error' = ""
                /\ transferCommandBuffer'.acquired
             \/ /\ Aborted({"Couldn't acquire GPU command buffer"})
                /\ ~transferCommandBuffer'.acquired
       /\ pc = "SDL_SubmitGPUCommandBuffer" =>
             \/ /\ pc' = "SDL_ReleaseGPUTransferBuffer" /\ error' = ""
                /\ transferCommandBuffer'.submits = 1
             \/ /\ Aborted({"Couldn't submit GPU command buffer"})
                /\ transferCommandBuffer'.submits = 0
       /\ pc = "terminated" => FALSE
       /\ (pc' = "loop" /\ pc # "loop") =>
             /\ pc = "SDL_ShowWindow"
             /\ error = "" /\ error' = ""
             /\ transferCommandBuffer.submits = 1
       /\ frame' # NoFrame => pc = "loop"]_vars

\* startup was aborted by the failure to create the index buffer: the vertex
\* buffer exists, no transfer buffer was ever created, there is no frame
C12_Witness ==
    /\ pc = "terminated"
    /\ error = "Couldn't create GPU buffer"
    /\ context.vertexBuffer # NULL
    /\ context.indexBuffer = NULL
    /\ TransferHandles = {}
    /\ frame = NoFrame

----------------------------------------------------------------------------
(* The order of a frame *)

FrameOps == [i \in 1..Len(frame.cmd.commands) |-> frame.cmd.commands[i].op]

\* C13: the command buffer of a frame that acquired a swapchain image holds,
\* in this order: begin render pass (MSAA target cleared and resolved into the
\* swapchain image, depth/stencil target cleared to 1), bind pipeline, bind
\* vertex buffer at slot 0 offset 0, bind index buffer as 32-bit, bind texture
\* and sampler at fragment sampler slot 0, push the matrix as vertex uniform
\* slot 0, draw, end render pass; it is submitted at most once, and when it is
\* submitted all of these, ending with the end of the render pass, are on it.
C13_FrameOperationOrder ==
    frame.swapchainTexture = SwapchainImage =>
       LET commands == frame.cmd.commands
       IN  /\ FrameOps = << "SDL_BeginGPURenderPass", "SDL_BindGPUGraphicsPipeline",
                            "SDL_BindGPUVertexBuffers", "SDL_BindGPUIndexBuffer",
                            "SDL_BindGPUFragmentSamplers",
                            "SDL_PushGPUVertexUniformData",
                            "SDL_DrawGPUIndexedPrimitives", "SDL_EndGPURenderPass" >>
           /\ commands[1].texture = context.msaaTexture
           /\ commands[1].load_op = "CLEAR"
           /\ commands[1].store_op = "RESOLVE"
           /\ commands[1].resolve_texture = frame.swapchainTexture
           /\ commands[1].depth_texture = context.depthStencilTexture
           /\ commands[1].depth_load_op = "CLEAR"
           /\ commands[1].clear_depth = 1
           /\ commands[2].pipeline = context.pipeline
           /\ objs[commands[2].pipeline].kind = "pipeline"
           /\ commands[3].first_slot = 0
           /\ commands[3].offset = 0
           /\ commands[3].buffer = context.vertexBuffer
           /\ objs[commands[3].buffer].usage = "VERTEX"
           /\ commands[4].index_element_size = 32
           /\ commands[4].buffer = context.indexBuffer
           /\ objs[commands[4].buffer].usage = "INDEX"
           /\ commands[5].first_slot = 0
           /\ commands[5].texture = context.texture
           /\ commands[5].sampler = context.sampler
           /\ commands[6].slot_index = 0
           /\ frame.cmd.submits \in {0, 1}
           /\ frame.cmd.submits = 1 <=> error = ""
           /\ frame.cmd.submits = 0 => error = "Couldn't submit GPU command buffer"

\* a frame with a swapchain image was submitted after a resize
C13_Witness ==
    /\ frame.swapchainTexture = SwapchainImage
    /\ frame.cmd.submits = 1
    /\ Len(frame.cmd.commands) = 8
    /\ resizes = 1
    /\ pc = "loop"

----------------------------------------------------------------------------
(* Submission of every frame *)

\* C14: a frame that acquired a command buffer has submitted it exactly once
\* when SDL_AppIterate leaves the frame, unless the submission itself failed
\* (which is fatal); this on every path: image acquired, no image available,
\* swapchain acquisition reporting failure.
C14_EveryAcquiredFrameSubmitted ==
    frame.cmd.acquired =>
       \/ frame.cmd.submits = 1 /\ error = ""
       \/ /\ frame.cmd.submits = 0
          /\ error = "Couldn't submit GPU command buffer"
          /\ pc = "terminated"

----------------------------------------------------------------------------
(* The shader objects *)

ShaderHandles == {h \in 1..Len(objs) : objs[h].kind = "shader"}

\* the positions in calls of the calls of the operation
CallsOf(op) == {i \in 1..Len(calls) : calls[i].op = op}

\* C15: no shader is released twice; no call that creates a GPU object lies
\* between the creation of the pipeline and a release of a shader; once
\* startup has got past the releases both shaders have been released once;
\* and when SDL_AppInit is over, by return or by a thrown error, no shader
\* object is live.
C15_ShadersReleasedRightAfterPipeline ==
    /\ \A h \in ShaderHandles : objs[h].releases <= 1
    /\ \A p \in CallsOf("SDL_CreateGPUGraphicsPipeline"), r \in CallsOf("SDL_ReleaseGPUShader") :
          /\ p < r
          /\ \A i \in (p + 1)..(r - 1) : calls[i].op = "SDL_ReleaseGPUShader"
    /\ pc \in {"loop", "SDL_AppQuit", "exited", "terminated"} =>
          \A h \in ShaderHandles : ~objs[h].live

----------------------------------------------------------------------------
(* The depth/stencil format *)

\* the device was asked about the format and gave the answer
Answered(format, supported) ==
    \E i \in CallsOf("SDL_GPUTextureSupportsFormat") :
       calls[i].format = format /\ calls[i].supported = supported

DepthStencilTargets ==
    {h \in 1..Len(objs) : objs[h].usage = "DEPTH_STENCIL_TARGET"}

Pipelines == {h \in 1..Len(objs) : objs[h].kind = "pipeline"}

\* C16: if the device supports D24_UNORM_S8_UINT that format is selected; if
\* it does not and supports D32_FLOAT_S8_UINT, that one is; if it supports
\* neither, startup ends with the error and neither a pipeline nor a
\* depth/stencil target exists; the pipeline's depth/stencil target format and
\* the format of every depth/stencil target ever created, at startup or on a
\* resize, is the selected format.
C16_DepthStencilFormatSelection ==
    /\ Answered("D24_UNORM_S8_UINT", TRUE) =>
          context.depthStencilFormat = "D24_UNORM_S8_UINT"
    /\ (Answered("D24_UNORM_S8_UINT", FALSE) /\ Answered("D32_FLOAT_S8_UINT", TRUE)) =>
          context.depthStencilFormat = "D32_FLOAT_S8_UINT"
    /\ (Answered("D24_UNORM_S8_UINT", FALSE) /\ Answered("D32_FLOAT_S8_UINT", FALSE)) =>
          /\ pc = "terminated"
          /\ error = "Couldn't find a suitable depth stencil format"
          /\ Pipelines = {} /\ DepthStencilTargets = {}
    /\ (Pipelines # {} \/ DepthStencilTargets # {}) =>
          /\ Answered("D24_UNORM_S8_UINT", TRUE) \/ Answered("D32_FLOAT_S8_UINT", TRUE)
          /\ context.depthStencilFormat \in {"D24_UNORM_S8_UINT", "D32_FLOAT_S8_UINT"}
    /\ \A h \in Pipelines :
          /\ objs[h].data.has_depth_stencil_target
          /\ objs[h].data.depth_stencil_format = context.depthStencilFormat
    /\ \A h \in DepthStencilTargets :
          objs[h].format = context.depthStencilFormat

\* the device supports only D32_FLOAT_S8_UINT, and the depth/stencil target
\* recreated by a resize has that format, as the pipeline has
C16_Witness ==
    /\ Answered("D24_UNORM_S8_UINT", FALSE)
    /\ Answered("D32_FLOAT_S8_UINT", TRUE)
    /\ Cardinality(DepthStencilTargets) = 2
    /\ \A h \in DepthStencilTargets : objs[h].format = "D32_FLOAT_S8_UINT"
    /\ \E h \in Pipelines : objs[h].data.depth_stencil_format = "D32_FLOAT_S8_UINT"

----------------------------------------------------------------------------
(* The resources made at startup *)

\* the handles of the context other than the two render targets
StartupHandles(c) ==
    <<c.window, c.device, c.pipeline, c.vertexBuffer, c.indexBuffer, c.texture,
      c.sampler>>

AfterStartup == pc \in {"loop", "SDL_AppQuit"}

CopyPassOps ==
    {"SDL_BeginGPUCopyPass", "SDL_UploadToGPUBuffer", "SDL_UploadToGPUTexture",
     "SDL_EndGPUCopyPass"}

\* C17: in every step taken after SDL_AppInit has returned, the handles of
\* the pipeline, vertex buffer, index buffer, sampled texture and sampler (and
\* of the window and device) stay what they are; an object changes only if it
\* is a render target and a new object is a render target, and the render
\* target handles change and such objects change or appear only while a
\* resize event is handled; the startup command buffer stays as submitted,
\* with its one copy pass, and no frame records a copy-pass command.
C17_StartupResourcesUntouched ==
    [][AfterStartup =>
          /\ StartupHandles(context') = StartupHandles(context)
          /\ context'.model = context.model
          /\ Len(objs') >= Len(objs)
          /\ \A h \in 1..Len(objs') :
                (h > Len(objs) \/ objs'[h] # objs[h]) =>
                   /\ objs'[h].usage \in RenderTargetUsages
                   /\ EventHandled("SDL_EVENT_WINDOW_RESIZED")
          /\ (\/ context'.msaaTexture # context.msaaTexture
              \/ context'.depthStencilTexture # context.depthStencilTexture)
                => EventHandled("SDL_EVENT_WINDOW_RESIZED")
          /\ transferCommandBuffer' = transferCommandBuffer
          /\ transferCommandBuffer.submits = 1
          /\ Cardinality({i \in 1..Len(transferCommandBuffer.commands) :
                 transferCommandBuffer.commands[i].op = "SDL_BeginGPUCopyPass"}) = 1
          /\ \A i \in 1..Len(frame'.cmd.commands) :
                frame'.cmd.commands[i].op \notin CopyPassOps]_vars

\* after a resize and a submitted frame the objects made at startup are live,
\* never released, and the targets are of the second generation
C17_Witness ==
    /\ pc = "loop"
    /\ resizes = 1 /\ events = <<>>
    /\ frame.cmd.submits = 1
    /\ context.sampler # NULL
    /\ \A i \in 3..7 :
          /\ objs[StartupHandles(context)[i]].live
          /\ objs[StartupHandles(context)[i]].releases = 0
    /\ Cardinality(HandlesOfUsage("COLOR_TARGET")) = 2

----------------------------------------------------------------------------
(* LoadImage *)

Surfaces == {h \in 1..Len(objs) : objs[h].kind = "surface"}

\* C18: after a call of LoadImage with a channel count other than 4 the
\* process has ended with an error ("Unsupported number of channels", or
\* "Couldn't load image" when nothing could be decoded), no surface was
\* returned, and no surface is live: the decoded one was destroyed, once, by
\* the call that follows IMG_Load.
C18_UnsupportedChannelCount ==
    \A i \in CallsOf("LoadImage") :
       calls[i].desiredChannels # 4 =>
          /\ pc = "terminated"
          /\ error \in {"Unsupported number of channels", "Couldn't load image"}
          /\ local.imageData = NULL
          /\ \A h \in Surfaces : ~objs[h].live /\ objs[h].releases = 1
          /\ error = "Couldn't load image" => Surfaces = {} /\ Len(calls) = i
          /\ error = "Unsupported number of channels" =>
                /\ Cardinality(Surfaces) = 1
                /\ Len(calls) = i + 2
                /\ calls[i + 1].op = "IMG_Load"
                /\ calls[i + 2] = Call("SDL_DestroySurface", calls[i + 1].obj)

\* LoadImage was called for 3 channels, decoded an image and threw
C18_Witness ==
    /\ \E i \in CallsOf("LoadImage") : calls[i].desiredChannels = 3
    /\ error = "Unsupported number of channels"
    /\ \E h \in Surfaces : objs[h].releases = 1


\* C19: when LoadImage has returned to SDL_AppInit, what it returned is a
\* live surface of the format ABGR8888; startup never reads width, height or
\* pixels through a null surface pointer.
C19_LoadImageReturnsSurface ==
    /\ pc = "SDL_CreateGPUTexture" =>
          /\ local.imageData \in Surfaces
          /\ objs[local.imageData].live
          /\ objs[local.imageData].format = "ABGR8888"
    /\ error # "SIGSEGV"

----------------------------------------------------------------------------
(* The mesh *)

\* C20: the mesh import runs at most once in an execution, and from the
\* moment the vertex buffer has been sized from the mesh the vertex and index
\* sequences of the context are not modified.
C20_MeshImportedOnce ==
    /\ [](Cardinality(CallsOf("Assimp::Importer::ReadFile")) <= 1)
    /\ [][context.vertexBuffer # NULL => context'.model = context.model]_vars


----------------------------------------------------------------------------
(* The resources a frame binds *)

\* the handles SDL_AppIterate passes to the render pass and to the binds
FrameResources(c) ==
    <<c.pipeline, c.msaaTexture, c.depthStencilTexture, c.texture,
      c.vertexBuffer, c.indexBuffer, c.sampler>>

\* C21: once SDL_AppInit has returned continue, the pipeline, the MSAA
\* target, the depth/stencil target, the sampled texture, the vertex buffer,
\* the index buffer and the sampler of the context are all non-null, and no
\* frame records a render pass or a bind with a null resource.
C21_FrameResourcesPresent ==
    /\ AfterStartup =>
          \A i \in 1..Len(FrameResources(context)) : FrameResources(context)[i] # NULL
    /\ \A i \in 1..Len(frame.cmd.commands) :
          LET command == frame.cmd.commands[i]
          IN  /\ command.op = "SDL_BeginGPURenderPass" =>
                    command.texture # NULL /\ command.depth_texture # NULL
              /\ command.op = "SDL_BindGPUGraphicsPipeline" => command.pipeline # NULL
              /\ command.op \in {"SDL_BindGPUVertexBuffers", "SDL_BindGPUIndexBuffer"} =>
                    command.buffer # NULL
              /\ command.op = "SDL_BindGPUFragmentSamplers" =>
                    command.texture # NULL /\ command.sampler # NULL


----------------------------------------------------------------------------
(* The imported mesh data *)

\* the number of vertices, and of face indices, of the meshes before mesh m
RECURSIVE VerticesBefore(_, _)
VerticesBefore(scene, m) ==
    IF m = 1 THEN 0
    ELSE VerticesBefore(scene, m - 1) + Len(scene[m - 1].mVertices)

RECURSIVE IndicesBefore(_, _)
IndicesBefore(scene, m) ==
    IF m = 1 THEN 0
    ELSE IndicesBefore(scene, m - 1) + Len(Concat(scene[m - 1].mFaces))

\* the vertices of the model are those of all meshes in mesh order, with UV
\* (0,0) where the mesh has no texture-coordinate channel
VerticesInMeshOrder(scene, model) ==
    /\ Len(model.vertices) = VerticesBefore(scene, Len(scene) + 1)
    /\ \A m \in 1..Len(scene) :
          \A j \in 1..Len(scene[m].mVertices) :
             LET vertex == model.vertices[VerticesBefore(scene, m) + j]
             IN  /\ vertex.position = scene[m].mVertices[j]
                 /\ vertex.uv = IF scene[m].mTextureCoords = <<>>
                                  THEN <<0, 0>>
                                  ELSE scene[m].mTextureCoords[j]

\* the model has one index per face index of the source, in mesh order, and
\* each is a position in the vertices of the model
IndicesInRange(scene, model) ==
    /\ Len(model.indices) = IndicesBefore(scene, Len(scene) + 1)
    /\ \A p \in 1..Len(model.indices) : model.indices[p] < Len(model.vertices)

\* each stored index denotes, in the vertices of the model, the vertex of its
\* own mesh that the source face referenced
IndicesDenoteOwnMesh(scene, model) ==
    \A m \in 1..Len(scene) :
       LET faceIndices == Concat(scene[m].mFaces)
       IN  \A q \in 1..Len(faceIndices) :
              IndicesBefore(scene, m) + q \in 1..Len(model.indices)
              /\ model.indices[IndicesBefore(scene, m) + q]
                    = VerticesBefore(scene, m) + faceIndices[q]

\* C22: once the Model constructor has run on the imported scene, the model
\* holds all vertices of all meshes in mesh order (UV (0,0) for a mesh without
\* texture coordinates) and all face indices in mesh order, every stored
\* index is less than the number of stored vertices, and every stored index
\* denotes the vertex of the same mesh that the source face referenced.
C22_ModelOfScene ==
    context.model # EmptyModel =>
       /\ VerticesInMeshOrder(platform.scene, context.model)
       /\ IndicesInRange(platform.scene, context.model)
       /\ IndicesDenoteOwnMesh(platform.scene, context.model)

====
